---- MODULE Spec2Model ----
(***************************************************************************)
(* Screening engines of the stock filter.                                  *)
(*                                                                         *)
(*   engine = "local" : analyze_stock_from_local_data                      *)
(*                      (moneymaker_pro_alpha.py), the lookback scan over  *)
(*                      the weekly series of one symbol;                   *)
(*   engine = "core"  : analyze_stock_core (moneymaker.py), the single     *)
(*                      week screen of the live scanner.                   *)
(*                                                                         *)
(* The weekly series is the frame weekly_data after resampling, dropna and *)
(* the Volume > 0 filter, so every Volume is positive and no cell is       *)
(* missing.  Its index is unique and increasing; a label is modelled by    *)
(* the row position, and Series.get(label, nan) by Get.                    *)
(*                                                                         *)
(* Arithmetic is exact: a mean is the pair <<sum, count>>, NaN is <<>>,    *)
(* volume_multiplier is the pair <<num, den>> with den > 0, and every      *)
(* comparison is made by cross multiplication.  Floating point rounding is *)
(* outside the model.                                                      *)
(***************************************************************************)
EXTENDS Integers, Sequences, FiniteSets, TLC

\* ---------------------------------------------------------------- bounds
MaxWeeks == 4
MaxLookback == 2

\* ------------------------------------------------------- input domains
Volumes == {1, 3}
Closes == {1, 2, 3}
Bars == [Volume : Volumes, Close : Closes]

\* Python's None where a number or a dictionary may stand instead: the
\* empty tuple, a present value x being <<x>>.  NoKey is the None of a name.
None == <<>>
NoKey == "None"
NaN == <<>>
Million == 1000000

MAKeys == <<"short", "intermediate", "medium", "long">>

Multipliers == {<<1, 1>>}
AvgVolumeWeeks == {1, 2}
PriceAvgWeeks == {1, 3}
MAPeriods == { [short |-> 1, intermediate |-> 2, medium |-> 4, long |-> 6] }
CapBounds == { <<0, 0>>, <<4, 0>>, <<0, 2>> }
MarketCaps == { None, <<3 * Million>> }

\* ------------------------------------------------------------- state
VARIABLES engine, weekly_data, config, market_cap,
          pc, i, result, log, avg_weekly_volume_series,
          hist_daily, today, fetcher,
          stock_data, tickers, max_workers, fut, ret, completed, snapshot,
          consumed, results, results_queue, tree, progress_queue, cancel_event

vars == <<engine, weekly_data, config, market_cap,
          pc, i, result, log, avg_weekly_volume_series,
          hist_daily, today, fetcher,
          stock_data, tickers, max_workers, fut, ret, completed, snapshot,
          consumed, results, results_queue, tree, progress_queue, cancel_event>>

\* The state of one analysis, apart from the position pc.
analysisVars == <<engine, weekly_data, config, market_cap,
                  i, result, log, avg_weekly_volume_series>>

\* The Dataset and the result list of run_filter_thread.
filterVars == <<stock_data, results>>

\* The executor, its futures and the cancel event of run_scan_thread.
scanVars == <<tickers, max_workers, fut, ret, completed, snapshot, consumed,
              cancel_event>>

\* The queues between a run thread and the window, and the result table.
queueVars == <<results_queue, tree, progress_queue>>

runVars == <<filterVars, scanVars, queueVars>>

\* The daily frame and the clock, read by the weekly aggregation only.
dailyVars == <<hist_daily, today>>

\* The frame of main() of the data fetcher.
fetchVars == <<fetcher>>

inputs == <<engine, weekly_data, config, market_cap>>


\* ------------------------------------------------ rolling statistics
\* One column of the weekly frame, as a sequence of numbers.
VolumeCol(w) == [p \in 1..Len(w) |-> w[p].Volume]
CloseCol(w) == [p \in 1..Len(w) |-> w[p].Close]

\* Mutant: the column is not shifted, the window ends at the week itself.
Shift1NoShift(col) == [p \in 1..Len(col) |-> <<col[p], 1>>]

\* Series.shift(1): row p takes the value of row p-1; the first row is NaN.
Shift1(col) == [p \in 1..Len(col) |-> IF p = 1 THEN NaN ELSE <<col[p - 1], 1>>]

\* min_periods = int(window * 0.8): truncation towards zero.
MinPeriods(window) == (window * 8) \div 10

\* The rows lo..hi of a shifted column that hold a value.
Observed(cells, lo, hi) == {q \in lo..hi : cells[q] # NaN}

RECURSIVE SumCells(_, _)
SumCells(cells, rows) ==
    IF rows = {} THEN 0
    ELSE LET q == CHOOSE r \in rows : TRUE
         IN  cells[q][1] + SumCells(cells, rows \ {q})

\* Series.rolling(window, min_periods).mean(): at row p the mean of the
\* observed cells among the last `window` rows ending at p, NaN when fewer
\* than min_periods cells (or none at all) are observed.
Rolling(cells, window, min_periods) ==
    [p \in 1..Len(cells) |->
        LET lo   == IF p - window + 1 < 1 THEN 1 ELSE p - window + 1
            obs  == Observed(cells, lo, p)
            nobs == Cardinality(obs)
        IN  IF nobs >= min_periods /\ nobs > 0
            THEN <<SumCells(cells, obs), nobs>>
            ELSE NaN]

\* col.shift(1).rolling(window=window, min_periods=int(window*0.8)).mean()
RollingBaseline(col, window) == Rolling(Shift1(col), window, MinPeriods(window))

\* Series.get(label, nan)
Get(series, label) == IF label \in DOMAIN series THEN series[label] ELSE NaN

\* Series.iloc[lo:hi].mean() over the rows lo..hi (1-based, inclusive); a
\* slice that starts before the first row is clipped to it, and the mean
\* of an empty slice is NaN.
RECURSIVE SumCol(_, _, _)
SumCol(col, lo, hi) == IF lo > hi THEN 0 ELSE col[lo] + SumCol(col, lo + 1, hi)
SliceMean(col, lo, hi) ==
    LET from == IF lo < 1 THEN 1 ELSE lo
    IN  IF from > hi THEN NaN ELSE <<SumCol(col, from, hi), hi - from + 1>>

\* -------------------------------------------------- exact comparisons
IsNaN(x) == x = NaN
\* Mutant: the spike test is strict.
GeqTimesStrict(v, m, a) == v * m[2] * a[2] > m[1] * a[1]

\* v >= m * a      for an integer v, multiplier m = <<num, den>>, mean a
GeqTimes(v, m, a) == v * m[2] * a[2] >= m[1] * a[1]
\* Mutant: a close equal to the mean is not rejected.
LeqMeanStrict(v, a) == v * a[2] < a[1]

\* v <= a          for an integer v and a mean a
LeqMean(v, a) == v * a[2] <= a[1]
\* Mutant: the division is inverted.
RatioInverted(v, a) == IF a[1] > 0 THEN <<a[1], v * a[2]>> ELSE <<1, 0>>

\* v / a           (inf when a is not positive)
Ratio(v, a) == IF a[1] > 0 THEN <<v * a[2], a[1]>> ELSE <<1, 0>>

\* ------------------------------------------------- candidate weeks
\* Mutant: the candidate row is taken one week too early.
TargetOffByOne(w, n) == Len(w) - n

\* weekly_data.iloc[-i]: the row of the i-th most recent week.
Target(w, n) == Len(w) - n + 1

\* Mutant: the weeks before the newest week are counted, whatever the
\* candidate.
PriorOfNewest(w, n) == Len(w) - 1

\* len(weekly_data.iloc[:-i]): the number of weeks before the candidate.
Prior(w, n) == Len(w) - n

\* Mutant: the history checks are missing.
TooYoungNever(w, cfg, n) == FALSE

\* Lookback engine, "Data Age / MA Period Checks": too little history.
TooYoung(w, cfg, n) ==
    \/ Prior(w, n) < cfg.ma_periods.short + 1
    \/ Prior(w, n) < cfg.avg_volume_weeks + 1

\* preceding_avg_volume of the candidate week.
PrecedingAvgVolume(w, cfg, n) ==
    Get(RollingBaseline(VolumeCol(w), cfg.avg_volume_weeks), Target(w, n))

\* The baseline cannot be used: NaN or zero.
BadBaseline(a) == IsNaN(a) \/ a[1] = 0

\* Volume spike condition: current_week_volume >= multiplier * baseline.
VolumeSpike(w, cfg, n) ==
    GeqTimes(w[Target(w, n)].Volume, cfg.volume_multiplier, PrecedingAvgVolume(w, cfg, n))

\* Price vs. preceding weeks average: the candidate fails when fewer than
\* price_avg_weeks weeks precede it, when the slice is empty, or when its
\* close is not above the mean close of the slice.
PriceWeak(w, cfg, n) ==
    LET k     == cfg.price_avg_weeks
        slice == SliceMean(CloseCol(w), Target(w, n) - k, Target(w, n) - 1)
    IN  \/ Prior(w, n) < k
        \/ IsNaN(slice)
        \/ LeqMean(w[Target(w, n)].Close, slice)

\* The trailing moving average of one window at the candidate week.
MAValue(w, period, n) == Get(RollingBaseline(CloseCol(w), period), Target(w, n))

\* Mutant: every moving average is evaluated, whatever the history.
MAAlwaysEvaluated(w, period, n) == TRUE

\* Lookback engine: a window is evaluated when at least `period` weeks
\* precede the candidate.
MAEvaluated(w, period, n) == Prior(w, n) >= period

\* One moving-average condition fails: evaluated, and NaN or close <= MA.
MAFails(w, period, n) ==
    /\ MAEvaluated(w, period, n)
    /\ \/ IsNaN(MAValue(w, period, n))
       \/ LeqMean(w[Target(w, n)].Close, MAValue(w, period, n))

\* Mutant: the loop over ma_periods stops after the short window.
FirstFailingMAShortOnly(w, cfg, n) ==
    IF MAFails(w, cfg.ma_periods.short, n) THEN "short" ELSE NoKey

\* The key at which the loop over ma_periods breaks, NoKey when it runs through.
FirstFailingMA(w, cfg, n) ==
    LET failing == {k \in 1..Len(MAKeys) : MAFails(w, cfg.ma_periods[MAKeys[k]], n)}
    IN  IF failing = {} THEN NoKey
        ELSE MAKeys[CHOOSE k \in failing : \A j \in failing : k <= j]

\* Mutant: a missing market cap never rejects.
CapRejectsIgnoringMissing(cap, min_cap_m, max_cap_m) ==
    /\ cap # None
    /\ \/ min_cap_m > 0 /\ cap[1] < min_cap_m * Million
       \/ max_cap_m > 0 /\ cap[1] > max_cap_m * Million

\* Market cap gate: the bounds are in millions.
CapRejects(cap, min_cap_m, max_cap_m) ==
    IF cap = None
    THEN min_cap_m > 0
    ELSE \/ min_cap_m > 0 /\ cap[1] < min_cap_m * Million
         \/ max_cap_m > 0 /\ cap[1] > max_cap_m * Million

\* The result dictionary of a match at the i-th most recent week.
MatchOf(w, cfg, cap, n) ==
    [ date         |-> Target(w, n),
      close_price  |-> w[Target(w, n)].Close,
      market_cap   |-> cap,
      avg_volume   |-> PrecedingAvgVolume(w, cfg, n),
      volume_ratio |-> Ratio(w[Target(w, n)].Volume, PrecedingAvgVolume(w, cfg, n)) ]

Entry(w, n, check, ma) == [week |-> Target(w, n), check |-> check, ma |-> ma]

\* ------------------------------------------- analyze_stock_core checks
\* The live scanner screens the last row only; its length tests count the
\* candidate week itself (len(weekly_data)).
CoreTooYoung(w, cfg) ==
    \/ Len(w) < cfg.ma_periods.short + 1
    \/ cfg.ma_periods.intermediate > 0 /\ Len(w) < cfg.ma_periods.intermediate + 1
    \/ Len(w) < cfg.avg_volume_weeks + 1

CorePriceWeak(w, cfg) ==
    LET k     == cfg.price_avg_weeks
        slice == SliceMean(CloseCol(w), Len(w) - k, Len(w) - 1)
    IN  \/ Len(w) < k + 1
        \/ IsNaN(slice)
        \/ LeqMean(w[Len(w)].Close, slice)

CoreMAEvaluated(w, period) == Len(w) >= period + 1

CoreMAFails(w, period) ==
    /\ CoreMAEvaluated(w, period)
    /\ \/ IsNaN(MAValue(w, period, 1))
       \/ ~ (w[Len(w)].Close * MAValue(w, period, 1)[2] > MAValue(w, period, 1)[1])

CoreFirstFailingMA(w, cfg) ==
    LET failing == {k \in 1..Len(MAKeys) : CoreMAFails(w, cfg.ma_periods[MAKeys[k]])}
    IN  IF failing = {} THEN NoKey
        ELSE MAKeys[CHOOSE k \in failing : \A j \in failing : k <= j]

\* The first check of analyze_stock_core that returns None, "match" when
\* none does; old is the outcome of (end_date - latest_week).days > 7.
CoreVerdict(w, cfg, cap, old) ==
    IF CapRejects(cap, cfg.min_market_cap, cfg.max_market_cap) THEN "cap"
    ELSE IF w = <<>> THEN "empty"
    ELSE IF old THEN "stale"
    ELSE IF CoreTooYoung(w, cfg) THEN "history"
    ELSE IF BadBaseline(PrecedingAvgVolume(w, cfg, 1)) THEN "baseline"
    ELSE IF ~ VolumeSpike(w, cfg, 1) THEN "volume"
    ELSE IF CorePriceWeak(w, cfg) THEN "price"
    ELSE IF CoreFirstFailingMA(w, cfg) # NoKey THEN "ma"
    ELSE "match"

CoreMatchOf(w, cfg, cap) ==
    [ date         |-> Len(w),
      close_price  |-> w[Len(w)].Close,
      market_cap   |-> cap,
      volume       |-> w[Len(w)].Volume,
      avg_volume   |-> PrecedingAvgVolume(w, cfg, 1),
      volume_ratio |-> Ratio(w[Len(w)].Volume, PrecedingAvgVolume(w, cfg, 1)) ]

\* ------------------------------------------------------------ inputs
\* analyze_stock_core reads no lookback_weeks: it screens the last week only.
LookbacksOf(e) == IF e = "core" THEN {1} ELSE {1, MaxLookback}

Configs(e) ==
    { [ volume_multiplier |-> m, avg_volume_weeks |-> a, price_avg_weeks |-> k,
        lookback_weeks |-> l, ma_periods |-> ma,
        min_market_cap |-> b[1], max_market_cap |-> b[2] ] :
      m \in Multipliers, a \in AvgVolumeWeeks, k \in PriceAvgWeeks,
      l \in LookbacksOf(e), ma \in MAPeriods, b \in CapBounds }

WeeklySeries == UNION { [1..n -> Bars] : n \in 0..MaxWeeks }

\* No daily frame is held: the analysis starts from the weekly frame.
NoDailyFrame ==
    /\ hist_daily = <<>>
    /\ today = 0

\* The data fetcher is not running.
NoFetch == fetcher = <<>>

\* No run thread is started: one symbol is analysed on its own.
NoRun ==
    /\ stock_data = <<>>
    /\ tickers = <<>>
    /\ max_workers = 1
    /\ fut = <<>>
    /\ ret = <<>>
    /\ completed = <<>>
    /\ snapshot = {}
    /\ consumed = <<>>
    /\ results = <<>>
    /\ results_queue = <<>>
    /\ tree = <<>>
    /\ progress_queue = <<>>
    /\ cancel_event = FALSE

Init ==
    /\ engine \in {"local", "core"}
    /\ weekly_data \in WeeklySeries
    /\ config \in Configs(engine)
    /\ market_cap \in MarketCaps
    /\ pc = IF engine = "core" THEN "core" ELSE "scan"
    /\ i = 1
    /\ result = None
    /\ log = <<>>
    /\ avg_weekly_volume_series = <<>>
    /\ NoDailyFrame
    /\ NoRun
    /\ NoFetch

\* ------------------------------------------ analyze_stock_from_local_data
\* for i in range(1, lookback_weeks + 1): if len(weekly_data) < i: break
LoopGoesOn(w, cfg, n) == n <= cfg.lookback_weeks /\ Len(w) >= n

InLoop ==
    /\ pc = "scan"
    /\ weekly_data # <<>>
    /\ LoopGoesOn(weekly_data, config, i)

\* The outcome of one pass of the loop body for the i-th most recent week:
\* the first check that executes `continue`, "match" when none does.
Verdict(w, cfg, cap, n) ==
    IF TooYoung(w, cfg, n) THEN "history"
    ELSE IF BadBaseline(PrecedingAvgVolume(w, cfg, n)) THEN "baseline"
    ELSE IF ~ VolumeSpike(w, cfg, n) THEN "volume"
    ELSE IF PriceWeak(w, cfg, n) THEN "price"
    ELSE IF FirstFailingMA(w, cfg, n) # NoKey THEN "ma"
    ELSE IF CapRejects(cap, cfg.min_market_cap, cfg.max_market_cap) THEN "cap"
    ELSE "match"

\* avg_weekly_volume_series is computed once the history checks are passed.
VolumeSeriesAfter(v) ==
    IF v = "history"
    THEN avg_weekly_volume_series
    ELSE RollingBaseline(VolumeCol(weekly_data), config.avg_volume_weeks)

\* "No weekly data after removing incomplete week."
NoWeeklyData ==
    /\ pc = "scan"
    /\ weekly_data = <<>>
    /\ pc' = "done"
    /\ UNCHANGED <<inputs, i, result, log, avg_weekly_volume_series, dailyVars, fetchVars, runVars>>

\* One pass of the loop body that ends in `continue` (or falls through
\* with price_conditions_met false): the scan moves to the next older week,
\* and returns None when the loop ends there.
SkipWeek ==
    /\ InLoop
    /\ \E v \in {Verdict(weekly_data, config, market_cap, i)} :
           /\ v # "match"
           /\ log' = Append(log, Entry(weekly_data, i, v,
                                       IF v = "ma"
                                       THEN FirstFailingMA(weekly_data, config, i)
                                       ELSE NoKey))
           /\ avg_weekly_volume_series' = VolumeSeriesAfter(v)
    /\ i' = i + 1
    /\ pc' = IF LoopGoesOn(weekly_data, config, i + 1) THEN "scan" ELSE "done"
    /\ UNCHANGED <<inputs, result, dailyVars, fetchVars, runVars>>

\* One pass of the loop body that reaches `return {...}`.
Match ==
    /\ InLoop
    /\ Verdict(weekly_data, config, market_cap, i) = "match"
    /\ result' = <<MatchOf(weekly_data, config, market_cap, i)>>
    /\ log' = Append(log, Entry(weekly_data, i, "match", NoKey))
    /\ avg_weekly_volume_series' = VolumeSeriesAfter("match")
    /\ pc' = "done"
    /\ UNCHANGED <<inputs, i, dailyVars, fetchVars, runVars>>

\* --------------------------------------------------- analyze_stock_core
AnalyzeCore ==
    /\ pc = "core"
    /\ \E old \in BOOLEAN :
       \E v \in {CoreVerdict(weekly_data, config, market_cap, old)} :
           /\ result' = IF v = "match"
                        THEN <<CoreMatchOf(weekly_data, config, market_cap)>>
                        ELSE None
           /\ log' = <<[week |-> Len(weekly_data), check |-> v,
                        ma |-> IF v = "ma"
                               THEN CoreFirstFailingMA(weekly_data, config)
                               ELSE NoKey]>>
           /\ avg_weekly_volume_series' =
                 IF v \in {"cap", "empty", "stale", "history"}
                 THEN avg_weekly_volume_series
                 ELSE RollingBaseline(VolumeCol(weekly_data), config.avg_volume_weeks)
    /\ pc' = "done"
    /\ UNCHANGED <<inputs, i, dailyVars, fetchVars, runVars>>

Next ==
    \/ NoWeeklyData
    \/ SkipWeek
    \/ Match
    \/ AnalyzeCore

Spec == Init /\ [][Next]_vars

\* The rolling series read the weekly frame and the window lengths only:
\* the runs in which the market cap is missing, no cap bound is set and the
\* price average spans one week.
InitBaseline ==
    /\ Init
    /\ market_cap = None
    /\ config.min_market_cap = 0
    /\ config.max_market_cap = 0
    /\ config.price_avg_weeks = 1

SpecBaseline == InitBaseline /\ [][Next]_vars

\* ===================================================== properties
\* The candidates decided so far, and what the weekly frame holds before
\* a row t, stated on the rows themselves.
Entries == {log[j] : j \in 1..Len(log)}
Done == pc = "done"
Matched == result # None
Mult == config.volume_multiplier
PriorWeeks(t) == t - 1
VolumeSum(t, n) == SumCol(VolumeCol(weekly_data), t - n, t - 1)
CloseSum(t, n) == SumCol(CloseCol(weekly_data), t - n, t - 1)
MAWindows == {config.ma_periods[MAKeys[k]] : k \in 1..Len(MAKeys)}
ShortestMA == CHOOSE m \in MAWindows : \A o \in MAWindows : m <= o

\* Row t passes every check of the lookback engine, each mean taken over
\* the full window of rows before t.
PassesAllChecks(t) ==
    /\ PriorWeeks(t) >= config.avg_volume_weeks + 1
    /\ PriorWeeks(t) >= config.ma_periods.short + 1
    /\ weekly_data[t].Volume * config.avg_volume_weeks * Mult[2]
          >= Mult[1] * VolumeSum(t, config.avg_volume_weeks)
    /\ PriorWeeks(t) >= config.price_avg_weeks
    /\ weekly_data[t].Close * config.price_avg_weeks > CloseSum(t, config.price_avg_weeks)
    /\ \A m \in MAWindows :
          PriorWeeks(t) >= m => weekly_data[t].Close * m > CloseSum(t, m)
    /\ IF market_cap = None
       THEN config.min_market_cap = 0
       ELSE /\ config.min_market_cap > 0
                => market_cap[1] >= config.min_market_cap * Million
            /\ config.max_market_cap > 0
                => market_cap[1] <= config.max_market_cap * Million

\* The candidates of the lookback window that pass every check, numbered
\* from the newest (1) backwards.
Qualifying ==
    {n \in 1..config.lookback_weeks :
        n <= Len(weekly_data) /\ PassesAllChecks(Len(weekly_data) - n + 1)}
Newest(S) == CHOOSE n \in S : \A o \in S : n <= o

\* C1: when analyze_stock_from_local_data returns, the result is the match
\* of the most recent week of the lookback window that passes all checks
\* (none when no week does), and its date, close, baseline and ratio are
\* those of that week.
C1_MostRecentQualifyingWeek ==
    (engine = "local" /\ Done) =>
        IF Qualifying = {}
        THEN result = None
        ELSE /\ Matched
             /\ LET t == Len(weekly_data) - Newest(Qualifying) + 1
                    r == result[1]
                    a == config.avg_volume_weeks
                IN  /\ r.date = t
                    /\ r.close_price = weekly_data[t].Close
                    /\ r.avg_volume[1] * a = VolumeSum(t, a) * r.avg_volume[2]
                    /\ r.volume_ratio[1] * VolumeSum(t, a)
                          = weekly_data[t].Volume * a * r.volume_ratio[2]

\* C1 witness: two weeks of the window qualify and the scan has returned.
C1_Witness ==
    /\ engine = "local"
    /\ Done
    /\ Cardinality(Qualifying) >= 2
    /\ Matched

\* A decided candidate reached the volume spike condition, and went past it.
ReachedVolumeCheck(e) ==
    /\ e.check \notin {"history", "empty", "stale"}
    /\ engine = "core" => e.check # "cap"
PassedVolumeCheck(e) == ReachedVolumeCheck(e) /\ e.check \notin {"baseline", "volume"}

\* C2: a candidate week whose trailing volume baseline is defined and not
\* zero passes the volume spike condition exactly when its volume is at
\* least volume_multiplier times the baseline; equality passes.
C2_VolumeSpikeIffAtLeastMultiple ==
    \A e \in Entries :
        LET a == config.avg_volume_weeks
        IN  (ReachedVolumeCheck(e) /\ PriorWeeks(e.week) >= a /\ VolumeSum(e.week, a) > 0)
            => (PassedVolumeCheck(e)
                <=> weekly_data[e.week].Volume * a * Mult[2] >= Mult[1] * VolumeSum(e.week, a))

\* C2 witness: a candidate whose volume equals multiplier * baseline went
\* past the volume spike condition.
C2_Witness ==
    \E e \in Entries :
        /\ PassedVolumeCheck(e)
        /\ weekly_data[e.week].Volume * config.avg_volume_weeks * Mult[2]
              = Mult[1] * VolumeSum(e.week, config.avg_volume_weeks)

\* C3: the volume_ratio of every produced match is the week's volume
\* divided by its trailing baseline, and is at least volume_multiplier.
C3_RatioAtLeastMultiplier ==
    Matched =>
        LET r == result[1]
            a == config.avg_volume_weeks
        IN  /\ r.volume_ratio[2] > 0
            /\ r.volume_ratio[1] * VolumeSum(r.date, a)
                  = weekly_data[r.date].Volume * a * r.volume_ratio[2]
            /\ r.volume_ratio[1] * Mult[2] >= Mult[1] * r.volume_ratio[2]

\* C3 witness: a match whose ratio is above the multiplier.
C3_Witness ==
    /\ Matched
    /\ result[1].volume_ratio[1] * Mult[2] > Mult[1] * result[1].volume_ratio[2]

\* Some window with at least `margin` more prior weeks than its length has
\* a full-window mean that the close of row t does not exceed.
SomeWindowFails(t, margin) ==
    \E m \in MAWindows :
        /\ PriorWeeks(t) >= m + margin
        /\ weekly_data[t].Close * m <= CloseSum(t, m)

\* C4 as stated: in the lookback engine a moving average whose window M
\* leaves the candidate fewer than M+1 prior weeks is omitted, so every
\* moving-average rejection comes from a window with at least M+1 prior
\* weeks; and a candidate with fewer than (shortest window)+1 prior weeks is
\* rejected by the sufficient-history check.
C4_OmittedBelowWindowPlusOne ==
    engine = "local" =>
        \A e \in Entries :
            /\ e.check = "ma" => SomeWindowFails(e.week, 1)
            /\ PriorWeeks(e.week) < ShortestMA + 1 => e.check = "history"

\* C4 amended: in the lookback engine a moving average whose window M
\* leaves the candidate fewer than M prior weeks is omitted, so every
\* moving-average rejection comes from a window with at least M prior
\* weeks; and a candidate with fewer than (shortest window)+1 prior weeks is
\* rejected by the sufficient-history check.
C4_OmittedBelowWindow ==
    engine = "local" =>
        \A e \in Entries :
            /\ e.check = "ma" => SomeWindowFails(e.week, 0)
            /\ PriorWeeks(e.week) < ShortestMA + 1 => e.check = "history"

\* C4 witness: the lookback engine matched a week although the mean of all
\* its prior closes is not below its close, a window longer than its history
\* having been omitted.
C4_Witness ==
    /\ engine = "local"
    /\ \E e \in Entries :
        /\ e.check = "match"
        /\ \E m \in MAWindows : PriorWeeks(e.week) < m
        /\ weekly_data[e.week].Close * PriorWeeks(e.week)
              <= CloseSum(e.week, PriorWeeks(e.week))

\* A decided candidate reached the sufficient-history check.
ReachedHistoryCheck(e) ==
    /\ e.check \notin {"empty", "stale"}
    /\ engine = "core" => e.check # "cap"

\* C5 as stated: a candidate week is rejected by the sufficient-history
\* check exactly when fewer than avg_volume_weeks+1 weeks or fewer than
\* (shortest window)+1 weeks exist before it.
C5_HistoryCheckExact ==
    \A e \in Entries :
        ReachedHistoryCheck(e) =>
            (e.check = "history"
                <=> \/ PriorWeeks(e.week) < config.avg_volume_weeks + 1
                    \/ PriorWeeks(e.week) < ShortestMA + 1)

\* ceil(0.8 * N)
CeilMinPeriods(N) == (N * 8 + 9) \div 10

\* The prior weeks that fall in the window of N weeks before row p.
PriorInWindow(p, N) == IF p - 1 < N THEN p - 1 ELSE N

\* C6 as stated: the rolling volume baseline with window N is defined at a
\* week exactly when at least ceil(0.8*N) prior weeks fall in its window.
C6_DefinedFromCeil ==
    \A p \in DOMAIN avg_weekly_volume_series :
        avg_weekly_volume_series[p] # NaN
            <=> PriorInWindow(p, config.avg_volume_weeks)
                    >= CeilMinPeriods(config.avg_volume_weeks)

\* A column cut after week W, with the value of week W replaced by x.
CutAt(col, W, x) == Append(SubSeq(col, 1, W - 1), x)

\* C7: the rolling baseline (volume, or close for any configured window)
\* at week W depends on the weeks strictly before W only: it is the same
\* when the later weeks are removed or kept, and when week W itself is
\* replaced by any other value.
C7_NoLookahead ==
    \A W \in DOMAIN avg_weekly_volume_series :
        /\ \A x \in Volumes :
            /\ avg_weekly_volume_series[W]
                  = RollingBaseline(CutAt(VolumeCol(weekly_data), W, x),
                                    config.avg_volume_weeks)[W]
            /\ avg_weekly_volume_series[W]
                  = RollingBaseline([VolumeCol(weekly_data) EXCEPT ![W] = x],
                                    config.avg_volume_weeks)[W]
        /\ \A m \in MAWindows :
            \E ma \in {RollingBaseline(CloseCol(weekly_data), m)[W]} :
                \A x \in Closes :
                    ma = RollingBaseline(CutAt(CloseCol(weekly_data), W, x), m)[W]

\* C7 witness: a defined volume baseline at a week that is followed by a
\* later week, the week, its predecessor and its successor all differing
\* in volume.
C7_Witness ==
    \E W \in DOMAIN avg_weekly_volume_series :
        /\ 1 < W /\ W < Len(weekly_data)
        /\ avg_weekly_volume_series[W] # NaN
        /\ weekly_data[W].Volume # weekly_data[W - 1].Volume
        /\ weekly_data[W + 1].Volume # weekly_data[W].Volume

\* C8: with only a minimum cap configured and the market cap missing, the
\* symbol produces no match; with both bounds zero the market-cap gate
\* rejects nothing, whatever the market cap.
C8_MinOnlyGate ==
    /\ (/\ Done
        /\ config.min_market_cap > 0
        /\ config.max_market_cap = 0
        /\ market_cap = None) => result = None
    /\ (config.min_market_cap = 0 /\ config.max_market_cap = 0)
          => \A e \in Entries : e.check # "cap"

\* C8 witness: the lookback engine rejected a week at the market-cap gate,
\* the cap missing and only a minimum configured.
C8_Witness ==
    /\ Done
    /\ engine = "local"
    /\ config.min_market_cap > 0
    /\ config.max_market_cap = 0
    /\ market_cap = None
    /\ \E e \in Entries : e.check = "cap"

\* C9 as stated: with a maximum market cap configured, a symbol whose
\* market cap is unknown or above the maximum produces no match.
C9_MaxRejectsUnknownOrAbove ==
    (/\ Done
     /\ config.max_market_cap > 0
     /\ \/ market_cap = None
        \/ market_cap[1] > config.max_market_cap * Million) => result = None

\* A decided candidate went past the short-term price condition.
PassedPriceCheck(e) ==
    \/ e.check \in {"ma", "match"}
    \/ engine = "local" /\ e.check = "cap"

\* C10: a candidate week goes past the short-term price condition, and so
\* can match, only if at least price_avg_weeks weeks precede it and its
\* close is strictly greater than the mean close of the price_avg_weeks
\* weeks immediately before it.
C10_CloseAboveShortTermAverage ==
    \A e \in Entries :
        PassedPriceCheck(e) =>
            /\ PriorWeeks(e.week) >= config.price_avg_weeks
            /\ weekly_data[e.week].Close * config.price_avg_weeks
                  > CloseSum(e.week, config.price_avg_weeks)

\* C10 witness: a week was rejected by the price condition with its close
\* equal to the mean of the preceding price_avg_weeks closes.
C10_Witness ==
    \E e \in Entries :
        /\ e.check = "price"
        /\ PriorWeeks(e.week) >= config.price_avg_weeks
        /\ weekly_data[e.week].Close * config.price_avg_weeks
              = CloseSum(e.week, config.price_avg_weeks)

\* C11: for every configured MA window that is evaluated (at least as many
\* prior weeks as the window), the close of a matched week is strictly
\* greater than the mean of the window's preceding closes; a candidate that
\* reaches the moving-average stage with its close equal to or below the
\* mean of an evaluated window is rejected there.
C11_CloseAboveEveryEvaluatedMA ==
    \A e \in Entries :
        /\ e.check = "match" =>
              \A m \in MAWindows :
                  PriorWeeks(e.week) >= m
                      => weekly_data[e.week].Close * m > CloseSum(e.week, m)
        /\ (PassedPriceCheck(e) /\ SomeWindowFails(e.week, 0)) => e.check = "ma"

\* C11 witness: a week rejected at a window longer than the short one, its
\* close equal to that window's mean.
C11_Witness ==
    \E e \in Entries :
        /\ e.check = "ma"
        /\ e.ma # "short"
        /\ weekly_data[e.week].Close * config.ma_periods[e.ma]
              = CloseSum(e.week, config.ma_periods[e.ma])

\* ------------------------------------------------------ weekly aggregation
\* hist_daily.resample('W-MON').agg(...).dropna(...), the volume filter and
\* the removal of the week in progress, as both engines run them before
\* the checks. Days are numbered from a Monday: day 0, 7, 14, ... are Mondays.
MaxDay == 9
MaxBars == 3

DayNumbers == 0..MaxDay
DailyShapes ==
    { [Open |-> 1, High |-> 3, Low |-> 1, Close |-> 2, Volume |-> 1],
      [Open |-> 2, High |-> 2, Low |-> 1, Close |-> 1, Volume |-> 0],
      [Open |-> 3, High |-> 4, Low |-> 2, Close |-> 3, Volume |-> 2] }
DailyBars ==
    { [Date |-> d, Open |-> sh.Open, High |-> sh.High, Low |-> sh.Low,
       Close |-> sh.Close, Volume |-> sh.Volume] : d \in DayNumbers, sh \in DailyShapes }

\* Daily frames as the data source delivers them: dates strictly increasing.
DailyFrames ==
    UNION { { d \in [1..n -> DailyBars] :
                \A k \in 1..(n - 1) : d[k].Date < d[k + 1].Date } : n \in 0..MaxBars }

\* datetime.now().date(): the history is fetched up to the day of the fetch,
\* exclusive, so every bar is dated before the day the frame is read.
Todays(d) == { t \in 0..(MaxDay + 7) : d # <<>> => d[Len(d)].Date < t }

\* 'W-MON' with the defaults closed='right', label='right': a day falls in
\* the bin that ends on the Monday on or after it, and the bin carries
\* that Monday as its label.
WeekLabel(d) == d + ((7 - (d % 7)) % 7)

\* The daily bars of the bin labelled L, in frame order.
InWeek(d, L) == SelectSeq(d, LAMBDA b : WeekLabel(b.Date) = L)

MaxHigh(rows) ==
    CHOOSE x \in {rows[k].High : k \in 1..Len(rows)} :
        \A k \in 1..Len(rows) : x >= rows[k].High
MinLow(rows) ==
    CHOOSE x \in {rows[k].Low : k \in 1..Len(rows)} :
        \A k \in 1..Len(rows) : x <= rows[k].Low
RECURSIVE SumVolume(_)
SumVolume(rows) ==
    IF rows = <<>> THEN 0 ELSE rows[1].Volume + SumVolume(Tail(rows))

\* agg_functions on one bin: first, max, min, last are NaN on an empty bin,
\* sum is 0.
Agg(L, rows) ==
    [ Date   |-> L,
      Open   |-> IF rows = <<>> THEN NaN ELSE <<rows[1].Open>>,
      High   |-> IF rows = <<>> THEN NaN ELSE <<MaxHigh(rows)>>,
      Low    |-> IF rows = <<>> THEN NaN ELSE <<MinLow(rows)>>,
      Close  |-> IF rows = <<>> THEN NaN ELSE <<rows[Len(rows)].Close>>,
      Volume |-> SumVolume(rows) ]

\* One row per bin from the bin of the first bar to the bin of the last.
Resample(d) ==
    IF d = <<>> THEN <<>>
    ELSE LET first == WeekLabel(d[1].Date)
             last  == WeekLabel(d[Len(d)].Date)
         IN  [k \in 1..((last - first) \div 7 + 1) |->
                 Agg(first + 7 * (k - 1), InWeek(d, first + 7 * (k - 1)))]

\* .dropna(subset=['Close', 'Volume'])
DropNa(frame) == SelectSeq(frame, LAMBDA row : row.Close # NaN)

\* The cells of a frame without missing prices.
Values(frame) ==
    [k \in 1..Len(frame) |->
        [ Date |-> frame[k].Date, Open |-> frame[k].Open[1], High |-> frame[k].High[1],
          Low |-> frame[k].Low[1], Close |-> frame[k].Close[1],
          Volume |-> frame[k].Volume ]]

\* Mutant: the volume filter keeps every week.
KeepEveryWeek(frame) == frame

\* weekly_data[weekly_data['Volume'] > 0]
PositiveVolume(frame) == SelectSeq(frame, LAMBDA row : row.Volume > 0)

\* if datetime.now().date() < weekly_data.index[-1].date(): iloc[:-1]
DropIncompleteWeek(frame, now) ==
    IF now < frame[Len(frame)].Date THEN SubSeq(frame, 1, Len(frame) - 1) ELSE frame

InitWeekly ==
    /\ engine = "local"
    /\ hist_daily \in DailyFrames
    /\ today \in Todays(hist_daily)
    /\ weekly_data = <<>>
    /\ config = CHOOSE c \in Configs("local") : TRUE
    /\ market_cap = None
    /\ pc = "resample"
    /\ i = 1
    /\ result = None
    /\ log = <<>>
    /\ avg_weekly_volume_series = <<>>
    /\ NoRun
    /\ NoFetch

\* From the daily frame to the weekly frame with positive volume; an empty
\* frame ends the analysis.
ResampleWeekly ==
    /\ pc = "resample"
    /\ \E w \in {PositiveVolume(Values(DropNa(Resample(hist_daily))))} :
           /\ weekly_data' = w
           /\ pc' = IF w = <<>> THEN "done" ELSE "trim"
    /\ UNCHANGED <<engine, config, market_cap, i, result, log,
                   avg_weekly_volume_series, dailyVars, fetchVars, runVars>>

\* The week in progress is removed; an empty frame ends the analysis.
TrimIncompleteWeek ==
    /\ pc = "trim"
    /\ \E w \in {DropIncompleteWeek(weekly_data, today)} :
           /\ weekly_data' = w
           /\ pc' = IF w = <<>> THEN "done" ELSE "weekly"
    /\ UNCHANGED <<engine, config, market_cap, i, result, log,
                   avg_weekly_volume_series, dailyVars, fetchVars, runVars>>

NextWeekly == ResampleWeekly \/ TrimIncompleteWeek

SpecWeekly == InitWeekly /\ [][NextWeekly]_vars

\* The rows of the daily frame dated from day lo to day hi.
DailyRows(lo, hi) ==
    SelectSeq(hist_daily, LAMBDA b : lo <= b.Date /\ b.Date <= hi)

\* The week dates of the weekly frame.
WeekDates == {weekly_data[k].Date : k \in 1..Len(weekly_data)}

\* C12: for a daily frame with strictly increasing dates, the weekly frame
\* kept by the aggregation is strictly increasing in week date and every
\* retained week has volume > 0; a week is retained exactly when it has
\* daily bars and their summed volume is positive.
C12_WeeksIncreasingWithVolume ==
    /\ pc # "resample" =>
          /\ \A k \in 1..(Len(weekly_data) - 1) :
                weekly_data[k].Date < weekly_data[k + 1].Date
          /\ \A k \in 1..Len(weekly_data) : weekly_data[k].Volume > 0
    /\ pc = "trim" =>
          WeekDates = { L \in 0..(MaxDay + 7) :
                          /\ L % 7 = 0
                          /\ SumVolume(DailyRows(L - 6, L)) > 0 }

\* C12 witness: a week that has daily bars but no volume was dropped
\* between two retained weeks.
C12_Witness ==
    /\ pc = "trim"
    /\ \E L \in 0..(MaxDay + 7) :
          /\ L % 7 = 0
          /\ DailyRows(L - 6, L) # <<>>
          /\ L \notin WeekDates
          /\ \E a, b \in WeekDates : a < L /\ L < b

\* C13 as stated: every weekly bar is keyed by a Monday and aggregates
\* exactly the daily bars of the seven days that start on that Monday:
\* open = first open, high = max high, low = min low, close = last close,
\* volume = sum of the volumes.
C13_WeekStartsOnItsMonday ==
    pc # "resample" =>
        \A k \in 1..Len(weekly_data) :
            LET row  == weekly_data[k]
                mine == DailyRows(row.Date, row.Date + 6)
            IN  /\ row.Date % 7 = 0
                /\ mine # <<>>
                /\ row.Open = mine[1].Open
                /\ row.High = MaxHigh(mine)
                /\ row.Low = MinLow(mine)
                /\ row.Close = mine[Len(mine)].Close
                /\ row.Volume = SumVolume(mine)

\* C14 as stated: once the week in progress is removed, no retained week
\* can still receive a daily bar dated on or after today: no day from today
\* on falls in the seven days that end on a retained week's date.
C14_RetainedWeeksComplete ==
    pc = "weekly" =>
        \A k \in 1..Len(weekly_data) :
            \A d \in today..(MaxDay + 7) :
                ~ (weekly_data[k].Date - 7 < d /\ d <= weekly_data[k].Date)

\* ------------------------------------------------------ run_filter_thread
\* The Dataset is a dictionary: its items are read in key order, the tickers
\* are distinct. An item's data is stood for by what the checks of
\* analyze_stock_from_local_data make of it: None, or a match with the
\* volume ratio given. An item can instead be faulty: its history is
\* missing, its data has the wrong shape (pd.read_json or the resampling
\* raises), or its market cap is not a number (the division raises).
MaxSymbols == 3

Symbols == {"AAA", "BBB", "CCC"}
VolumeRatios == { <<1, 1>>, <<3, 2>>, <<2, 1>> }
Faults == {"no_history", "bad_shape", "bad_cap"}
Items ==
    { item \in [ticker : Symbols,
                data : {None} \cup {<<r>> : r \in VolumeRatios},
                fault : Faults \cup {"none"}] :
        item.fault # "none" => item.data = None }
Datasets ==
    UNION { { d \in [1..n -> Items] :
                \A a, b \in 1..n : a # b => d[a].ticker # d[b].ticker }
            : n \in 1..MaxSymbols }

\* An exception is raised inside the try block of the analysis.
Raises(item) == item.fault \in {"bad_shape", "bad_cap"}

\* Mutant: an exception raised by the analysis leaves it.
EscapesWhenRaised(item) == Raises(item)

\* An exception leaves analyze_stock_from_local_data: never, the whole body
\* is inside `try: ... except Exception`.
Escapes(item) == FALSE

\* f"Error processing {ticker}: {str(e)[:100]}", the text of the exception
\* being left out.
ErrorMsg(ticker) == "Error processing " \o ticker

\* result = analyze_stock_from_local_data(ticker, data, config, ...): None
\* for a missing history and after an exception.
AnalysisOf(item) ==
    IF item.fault # "none" \/ item.data = None THEN None
    ELSE <<[ticker |-> item.ticker, volume_ratio |-> item.data[1]]>>

RatioLess(a, b) == a[1] * b[2] < b[1] * a[2]

\* x goes behind every element whose ratio is not below its own.
RECURSIVE InsertDesc(_, _)
InsertDesc(x, sorted) ==
    IF sorted = <<>> THEN <<x>>
    ELSE IF RatioLess(Head(sorted).volume_ratio, x.volume_ratio)
         THEN <<x>> \o sorted
         ELSE <<Head(sorted)>> \o InsertDesc(x, Tail(sorted))

\* Mutant: reverse=True is missing, the list is sorted ascending.
RECURSIVE SortByRatioAscending(_)
SortByRatioAscending(list) ==
    IF list = <<>> THEN <<>>
    ELSE LET rest == SortByRatioAscending(SubSeq(list, 1, Len(list) - 1))
             x    == list[Len(list)]
             keep == SelectSeq(rest, LAMBDA y : ~ RatioLess(x.volume_ratio, y.volume_ratio))
             move == SelectSeq(rest, LAMBDA y : RatioLess(x.volume_ratio, y.volume_ratio))
         IN  keep \o <<x>> \o move

\* results.sort(key=lambda x: x['volume_ratio'], reverse=True): the sort is
\* stable, results of equal ratio keep the order they were appended in.
RECURSIVE SortByRatio(_)
SortByRatio(list) ==
    IF list = <<>> THEN <<>>
    ELSE InsertDesc(list[Len(list)], SortByRatio(SubSeq(list, 1, Len(list) - 1)))

InitFilter ==
    /\ engine = "local"
    /\ weekly_data = <<>>
    /\ config = CHOOSE c \in Configs("local") : TRUE
    /\ market_cap = None
    /\ pc = "filter"
    /\ i = 1
    /\ result = None
    /\ log = <<>>
    /\ avg_weekly_volume_series = <<>>
    /\ NoDailyFrame
    /\ NoFetch
    /\ stock_data \in Datasets
    /\ tickers = <<>>
    /\ max_workers = 1
    /\ fut = <<>>
    /\ ret = <<>>
    /\ completed = <<>>
    /\ snapshot = {}
    /\ consumed = <<>>
    /\ results = <<>>
    /\ results_queue = <<>>
    /\ tree = <<>>
    /\ progress_queue = <<"Status: Starting filter...">>
    /\ cancel_event = FALSE

\* `if processed_count % 100 == 0`
ProgressEvery == 100

\* f"Status: Analyzed {processed_count}/{total_stocks} stocks..."
AnalyzedMsg(processed_count, total_stocks) ==
    "Status: Analyzed " \o ToString(processed_count) \o "/"
        \o ToString(total_stocks) \o " stocks..."

\* The progress queue after the analysis of an item: the except block
\* reports the exception.
QueueAfterAnalysis(item) ==
    IF Raises(item) THEN Append(progress_queue, ErrorMsg(item.ticker))
    ELSE progress_queue

\* The progress queue after processed_count symbols have been analysed.
ProgressAfter(queue, processed_count) ==
    IF processed_count % ProgressEvery = 0
    THEN Append(queue, AnalyzedMsg(processed_count, Len(stock_data)))
    ELSE queue

\* One pass of `for ticker, data in stock_data.items()`; i - 1 is
\* processed_count. An exception that left the analysis would end the
\* thread, run_filter_thread having no handler.
FilterStep ==
    /\ pc = "filter"
    /\ i <= Len(stock_data)
    /\ IF Escapes(stock_data[i])
       THEN /\ pc' = "crashed"
            /\ UNCHANGED <<results, i, progress_queue>>
       ELSE /\ \E r \in {AnalysisOf(stock_data[i])} :
                  results' = IF r # None THEN Append(results, r[1]) ELSE results
            /\ i' = i + 1
            /\ progress_queue' = ProgressAfter(QueueAfterAnalysis(stock_data[i]), i)
            /\ UNCHANGED pc
    /\ UNCHANGED <<engine, weekly_data, config, market_cap, result, log,
                   avg_weekly_volume_series, dailyVars, fetchVars, stock_data, scanVars,
                   results_queue, tree>>

\* After the loop: the results are sorted and put on the results queue,
\* then the final status and "DONE" on the progress queue.
PublishSorted ==
    /\ pc = "filter"
    /\ i > Len(stock_data)
    /\ \E sorted \in {SortByRatio(results)} :
           /\ results' = sorted
           /\ results_queue' = results_queue \o sorted
           /\ progress_queue' =
                 progress_queue \o
                 << IF sorted = <<>> THEN "Status: Filter complete! No matching stocks found"
                    ELSE "Status: Filter complete! Found matching stocks",
                    "DONE" >>
    /\ pc' = "done"
    /\ UNCHANGED <<analysisVars, dailyVars, fetchVars, stock_data, scanVars, tree>>

\* check_queues: the window moves every queued result to the result table.
CheckQueues ==
    /\ results_queue # <<>>
    /\ tree' = tree \o results_queue
    /\ results_queue' = <<>>
    /\ UNCHANGED <<analysisVars, pc, dailyVars, fetchVars, filterVars, scanVars, progress_queue>>

NextFilter == FilterStep \/ PublishSorted \/ CheckQueues

SpecFilter == InitFilter /\ [][NextFilter]_vars

\* Every result published so far, in publication order: the rows of the
\* result table, then the results still on the queue.
Published == tree \o results_queue

\* C15: run_filter_thread publishes the matches of a run in non-increasing
\* order of volume_ratio, and every match found is published exactly once.
C15_PublishedByRatioDescending ==
    pc = "done" =>
        /\ \A a, b \in 1..Len(Published) :
              a < b => ~ RatioLess(Published[a].volume_ratio, Published[b].volume_ratio)
        /\ \A k \in 1..Len(stock_data) :
              Cardinality({ a \in 1..Len(Published) :
                              Published[a].ticker = stock_data[k].ticker })
                  = IF stock_data[k].data = None THEN 0 ELSE 1
        /\ \A a \in 1..Len(Published) :
              \E k \in 1..Len(stock_data) :
                  /\ Published[a].ticker = stock_data[k].ticker
                  /\ stock_data[k].data = <<Published[a].volume_ratio>>

\* C15 witness: two matches were published in the reverse of the order
\* they were found in, the later one having the higher ratio.
C15_Witness ==
    /\ pc = "done"
    /\ \E a, b \in 1..Len(stock_data) :
          /\ a < b
          /\ stock_data[a].data # None
          /\ stock_data[b].data # None
          /\ RatioLess(stock_data[a].data[1], stock_data[b].data[1])
          /\ Len(Published) >= 2

\* The sequence run_filter_thread publishes for a Dataset read in the
\* given key order.
FilterOutput(items) ==
    SortByRatio(SelectSeq([k \in 1..Len(items) |->
                              IF items[k].data = None THEN None
                              ELSE [ticker |-> items[k].ticker,
                                    volume_ratio |-> items[k].data[1]]],
                          LAMBDA r : r # None))

\* C16 as stated: the published sequence is the same whatever order the
\* symbols of the Dataset are screened in.
C16_OrderIndependentOfScreeningOrder ==
    pc = "done" =>
        \A f \in Permutations(1..Len(stock_data)) :
            FilterOutput([k \in 1..Len(stock_data) |-> stock_data[f[k]]]) = Published

\* -------------------------------------------------------- run_scan_thread
\* get_tickers_from_file_core, for a file that is not an ASX list. A line
\* is a comment (or blank), the header "Symbol|Security Name", a piped line
\* "text|name" or a plain line "text".
MaxTickers == 3

LineTexts == {"aaa", "AAA"}
Lines ==
    { [kind |-> "comment", text |-> ""], [kind |-> "header", text |-> "Symbol"] }
        \cup [kind : {"piped", "plain"}, text : LineTexts]
TickerFiles == UNION { [1..n -> Lines] : n \in 0..MaxTickers }

\* str.upper()
Upper(text) ==
    CASE text = "aaa" -> "AAA"
      [] text = "Symbol" -> "SYMBOL"
      [] OTHER -> text

\* The loop over the lines: comments are skipped, the header once, every
\* other line appends its upper-cased first field.
RECURSIVE ReadLines(_, _)
ReadLines(lines, skipped_header) ==
    IF lines = <<>> THEN <<>>
    ELSE LET line == Head(lines)
         IN  IF line.kind = "comment" THEN ReadLines(Tail(lines), skipped_header)
             ELSE IF line.kind = "header" /\ ~ skipped_header
                  THEN ReadLines(Tail(lines), TRUE)
                  ELSE <<Upper(line.text)>> \o ReadLines(Tail(lines), skipped_header)

GetTickers(lines) == ReadLines(lines, FALSE)

MaxWorkers == {1, 2}
ScanRatio == <<2, 1>>
FutureStates == {"queued", "info", "history", "finished"}

InitScan ==
    /\ engine = "core"
    /\ weekly_data = <<>>
    /\ config = CHOOSE c \in Configs("core") : c.max_market_cap > 0
    /\ market_cap = None
    /\ pc = "start"
    /\ i = 1
    /\ result = None
    /\ log = <<>>
    /\ avg_weekly_volume_series = <<>>
    /\ NoDailyFrame
    /\ NoFetch
    /\ stock_data = <<>>
    /\ tickers \in {GetTickers(f) : f \in TickerFiles}
    /\ max_workers \in MaxWorkers
    /\ fut = <<>>
    /\ ret = <<>>
    /\ completed = <<>>
    /\ snapshot = {}
    /\ consumed = <<>>
    /\ results = <<>>
    /\ results_queue = <<>>
    /\ tree = <<>>
    /\ progress_queue = <<"Status: Starting scan...">>
    /\ cancel_event = FALSE

\* The futures whose worker is inside a network call.
InFlight == {k \in DOMAIN fut : fut[k] \in {"info", "history"}}
Queued == {k \in DOMAIN fut : fut[k] = "queued"}

\* Mutant: the executor starts a thread for every submitted task.
WorkerAlwaysFree == TRUE

\* Mutant: the count is not incremented.
CompletedCountStale == Len(consumed)

\* completed_count += 1, where Len(consumed) is the count so far.
CompletedCountAfter == Len(consumed) + 1

\* f"Status: Scanned {completed_count}/{total_tickers}. ETA: ..."; the
\* estimate of the remaining time is left out.
ScannedMsg(completed_count, total_tickers) ==
    "Status: Scanned " \o ToString(completed_count) \o "/"
        \o ToString(total_tickers)

\* ThreadPoolExecutor(max_workers=MAX_WORKERS): a task leaves the work
\* queue only when one of the MAX_WORKERS threads is idle.
WorkerFree == Cardinality(InFlight) < max_workers

\* No tickers: "DONE" at once. Otherwise the executor is made and every
\* ticker is submitted; ThreadPoolExecutor raises ValueError for
\* max_workers <= 0, which ends the thread, nothing handling it.
StartScan ==
    /\ pc = "start"
    /\ IF tickers = <<>>
       THEN /\ progress_queue' = progress_queue \o <<"Status: No tickers to scan.", "DONE">>
            /\ pc' = "done"
            /\ UNCHANGED <<fut, ret>>
       ELSE /\ progress_queue' = Append(progress_queue, "Status: Loaded tickers.")
            /\ IF max_workers <= 0
               THEN /\ pc' = "crashed"
                    /\ UNCHANGED <<fut, ret>>
               ELSE /\ fut' = [k \in 1..Len(tickers) |-> "queued"]
                    /\ ret' = [k \in 1..Len(tickers) |-> None]
                    /\ pc' = "submitted"
    /\ UNCHANGED <<analysisVars, dailyVars, fetchVars, filterVars, tickers, max_workers,
                   completed, snapshot, consumed, cancel_event, results_queue, tree>>

\* Mutant: the worker appends its result to the result list itself.
ResultsAppendedByWorker(v) ==
    IF v # None THEN Append(results, v[1]) ELSE results

\* The result list after analyze_stock_core has returned v: as before, the
\* worker has no access to it; v goes to the future.
ResultsAfterReturn(v) == results

\* analyze_stock_core returns v for future k.
Finish(k, v) ==
    /\ fut' = [fut EXCEPT ![k] = "finished"]
    /\ ret' = [ret EXCEPT ![k] = v]
    /\ completed' = Append(completed, k)
    /\ results' = ResultsAfterReturn(v)

workerFrame == <<analysisVars, pc, dailyVars, fetchVars, stock_data, tickers, max_workers,
                 snapshot, consumed, cancel_event, results_queue, tree>>

\* f"Status: {ticker} has no market cap data. Skipping."
NoCapMsg(ticker) == "Status: " \o ticker \o " has no market cap data. Skipping."

\* The except block of analyze_stock_core: after the sleep the exception is
\* reported on the progress queue and None is returned.
Raise(k) ==
    /\ Finish(k, None)
    /\ progress_queue' = Append(progress_queue, ErrorMsg(tickers[k]))

\* An idle worker takes the oldest queued task: analyze_stock_core returns
\* None when the cancel event is set, and calls stock.info otherwise.
WorkerStart ==
    /\ pc \in {"submitted", "drain", "shutdown"}
    /\ Queued # {}
    /\ WorkerFree
    /\ LET k == CHOOSE q \in Queued : \A o \in Queued : q <= o
       IN  IF cancel_event
           THEN Finish(k, None)
           ELSE /\ fut' = [fut EXCEPT ![k] = "info"]
                /\ UNCHANGED <<ret, completed, results>>
    /\ UNCHANGED <<workerFrame, progress_queue>>

\* stock.info has raised, or has returned: the market-cap gate ends the
\* analysis with None (a missing cap under a minimum is reported), or
\* stock.history is called.
InfoReturns(k) ==
    /\ fut[k] = "info"
    /\ \/ Raise(k)
       \/ \E cap \in MarketCaps :
             IF CapRejects(cap, config.min_market_cap, config.max_market_cap)
             THEN /\ Finish(k, None)
                  /\ progress_queue' =
                        IF cap = None
                        THEN Append(progress_queue, NoCapMsg(tickers[k]))
                        ELSE progress_queue
             ELSE /\ fut' = [fut EXCEPT ![k] = "history"]
                  /\ UNCHANGED <<ret, completed, results, progress_queue>>
    /\ UNCHANGED workerFrame

\* stock.history has raised, or has returned: None when the cancel event
\* is set, else the verdict of the checks.
HistoryReturns(k) ==
    /\ fut[k] = "history"
    /\ \/ Raise(k)
       \/ /\ \E matched \in BOOLEAN :
                Finish(k, IF cancel_event \/ ~ matched THEN None
                          ELSE <<[ticker |-> tickers[k], volume_ratio |-> ScanRatio]>>)
          /\ UNCHANGED progress_queue
    /\ UNCHANGED workerFrame

\* as_completed(future_to_ticker) is called: the futures already finished
\* are put aside, to be yielded first.
AsCompleted ==
    /\ pc = "submitted"
    /\ snapshot' = {k \in DOMAIN fut : fut[k] = "finished"}
    /\ pc' = "drain"
    /\ UNCHANGED <<analysisVars, dailyVars, fetchVars, filterVars, tickers, max_workers, fut,
                   ret, completed, consumed, cancel_event, queueVars>>

Consumed == {consumed[j] : j \in 1..Len(consumed)}

\* What as_completed can yield next: any future that was finished when it
\* was called, in no specified order; then the others as they finish.
Yieldable ==
    IF snapshot \ Consumed # {} THEN snapshot \ Consumed
    ELSE LET later == SelectSeq(completed, LAMBDA k : k \notin snapshot /\ k \notin Consumed)
         IN  IF later = <<>> THEN {} ELSE {Head(later)}

\* Mutant: the result of the yielded future is published although the
\* cancel event is set.
ResultsQueueIgnoringCancel(k) ==
    IF ret[k] # None THEN Append(results_queue, ret[k][1]) ELSE results_queue

\* Mutant: the loop publishes the result of the future that completed
\* last instead of the result of the future it was handed.
ResultsQueueFromLastCompleted(k) ==
    LET last == completed[Len(completed)]
    IN  IF cancel_event THEN results_queue
        ELSE IF ret[last] # None THEN Append(results_queue, ret[last][1])
             ELSE results_queue

\* The results queue after the loop body has run for future k.
ResultsQueueAfter(k) ==
    IF cancel_event THEN results_queue
    ELSE IF ret[k] # None THEN Append(results_queue, ret[k][1]) ELSE results_queue

\* One pass of `for future in as_completed(...)`: break when the cancel
\* event is set, else the result, if any, is appended and published, and
\* the progress is reported; Len(consumed) is completed_count.
ConsumeCompleted ==
    /\ pc = "drain"
    /\ \E k \in Yieldable :
          /\ results_queue' = ResultsQueueAfter(k)
          /\ IF cancel_event
             THEN /\ progress_queue' = Append(progress_queue, "Status: Scan cancelled.")
                  /\ pc' = "shutdown"
                  /\ UNCHANGED <<consumed, results>>
             ELSE /\ consumed' = Append(consumed, k)
                  /\ results' = IF ret[k] # None THEN Append(results, ret[k][1]) ELSE results
                  /\ progress_queue' =
                        Append(progress_queue,
                               ScannedMsg(CompletedCountAfter, Len(tickers)))
                  /\ UNCHANGED pc
    /\ UNCHANGED <<analysisVars, dailyVars, fetchVars, stock_data, tickers, max_workers, fut, ret,
                   completed, snapshot, cancel_event, tree>>

\* Every future has been yielded: the loop ends.
DrainEnds ==
    /\ pc = "drain"
    /\ Len(consumed) = Len(tickers)
    /\ pc' = "shutdown"
    /\ UNCHANGED <<analysisVars, dailyVars, fetchVars, runVars>>

\* Leaving the `with` block waits for every worker; then the final status
\* and "DONE".
Shutdown ==
    /\ pc = "shutdown"
    /\ \A k \in DOMAIN fut : fut[k] = "finished"
    /\ progress_queue' =
          progress_queue \o
          << IF cancel_event THEN "CANCELLED" ELSE "Status: Scan complete!", "DONE" >>
    /\ pc' = "done"
    /\ UNCHANGED <<analysisVars, dailyVars, fetchVars, filterVars, scanVars, results_queue, tree>>

\* self.scan_thread and self.scan_thread.is_alive()
ScanThreadAlive == pc \in {"start", "submitted", "drain", "shutdown"}

\* cancel_scan: the stop event is set while the scan thread is alive.
CancelScan ==
    /\ ScanThreadAlive
    /\ ~ cancel_event
    /\ cancel_event' = TRUE
    /\ UNCHANGED <<analysisVars, pc, dailyVars, fetchVars, filterVars, tickers, max_workers, fut,
                   ret, completed, snapshot, consumed, queueVars>>

Workers ==
    \/ WorkerStart
    \/ \E k \in DOMAIN fut : InfoReturns(k)
    \/ \E k \in DOMAIN fut : HistoryReturns(k)

ScanThread == StartScan \/ AsCompleted \/ ConsumeCompleted \/ DrainEnds \/ Shutdown

NextScan == ScanThread \/ Workers \/ CancelScan \/ CheckQueues

SpecScan == InitScan /\ [][NextScan]_vars


\* C17 as stated: in one run at most one result is published per symbol,
\* for every ticker list the ticker-file reader can return.
C17_OneResultPerSymbol ==
    \A a, b \in 1..Len(Published) :
        a # b => Published[a].ticker # Published[b].ticker

\* The futures in the given order that were not finished when as_completed
\* was called.
AfterSnapshot(order) == SelectSeq(order, LAMBDA k : k \notin snapshot)

C19_NoFetchStartsAfterCancel ==
    [][cancel_event =>
          \A k \in DOMAIN fut' :
              fut'[k] \in {"info", "history"} => fut'[k] = fut[k]]_vars

\* The loop of run_scan_thread has seen the cancel event set.
ObservedCancel ==
    \E j \in 1..Len(progress_queue) : progress_queue[j] = "Status: Scan cancelled."

ScanEnded ==
    /\ pc = "done"
    /\ Len(progress_queue) >= 2
    /\ progress_queue[Len(progress_queue)] = "DONE"

\* The threads of the scan keep being scheduled and a network call returns:
\* while the scan thread or a worker can take a step, one of them does.
SpecScanFair ==
    /\ SpecScan
    /\ WF_vars(ScanThread \/ Workers)

\* C20: cancelling a scan retracts and alters nothing: the published
\* results only grow at their end, nothing is published in or after the
\* step in which the loop sees the cancel event, and a cancelled run still
\* ends with "DONE" (after "CANCELLED" when the loop saw the event).
C20_CancelKeepsPublishedResults ==
    /\ [][/\ Len(Published') >= Len(Published)
          /\ SubSeq(Published', 1, Len(Published)) = Published
          /\ ObservedCancel' => Published' = Published]_vars
    /\ [](ObservedCancel /\ pc = "done" =>
              /\ ScanEnded
              /\ progress_queue[Len(progress_queue) - 1] = "CANCELLED")
    /\ (cancel_event ~> ScanEnded)

\* C20 witness: the loop has seen the cancel event with results already
\* published, and the run has ended.
C20_Witness ==
    /\ ObservedCancel
    /\ Published # <<>>
    /\ tree # <<>>
    /\ ScanEnded

\* ------------------------------------------------------ progress reporting
\* The symbols of the run, and those whose analysis has been consumed.
TotalSymbols == IF engine = "core" THEN Len(tickers) ELSE Len(stock_data)
SymbolsDone == IF engine = "core" THEN Len(consumed) ELSE i - 1

\* The "N of Total" signal of the engine.
ProgressMsg(n, total) ==
    IF engine = "core" THEN ScannedMsg(n, total) ELSE AnalyzedMsg(n, total)

ProgressMsgs == { ProgressMsg(n, TotalSymbols) : n \in 0..TotalSymbols }

\* The progress signals emitted so far, in order.
ProgressSignals ==
    LET msgs == ProgressMsgs
    IN  SelectSeq(progress_queue, LAMBDA m : m \in msgs)

\* One signal has been emitted for every step-th symbol completed so far,
\* the n-th one carrying n * step, and a run that ends without cancellation
\* has emitted the signal of the last multiple of step up to Total.
ProgressEveryNth(step) ==
    /\ Len(ProgressSignals) = SymbolsDone \div step
    /\ \A n \in 1..Len(ProgressSignals) :
           ProgressSignals[n] = ProgressMsg(n * step, TotalSymbols)
    /\ SymbolsDone <= TotalSymbols
    /\ pc = "done" /\ ~ cancel_event =>
           Len(ProgressSignals) = TotalSymbols \div step

\* Either application: the filter window runs run_filter_thread, the
\* scanner window runs run_scan_thread and can cancel it.
InitRun == InitFilter \/ InitScan

NextRun ==
    \/ engine = "local" /\ NextFilter
    \/ engine = "core" /\ NextScan

SpecRun == InitRun /\ [][NextRun]_vars

Sound(items) == SelectSeq(items, LAMBDA item : item.fault = "none")

PublishedTickers == { Published[j].ticker : j \in 1..Len(Published) }

\* A worker reports an exception of the analysis of future k in this step.
ReportsError(k) ==
    /\ fut[k] # "finished"
    /\ fut'[k] = "finished"
    /\ progress_queue' = Append(progress_queue, ErrorMsg(tickers[k]))

\* C22: no failure of one symbol aborts the batch. In a filter run the
\* thread is never ended by an exception, every item is analysed, a faulty
\* item (missing history, wrong shape, non-numeric market cap) yields no
\* result and what is published is what the Dataset without the faulty
\* items yields. In a scan the step in which an analysis fails gives that
\* future the result None and touches no other future and no result, and a
\* run that is not cancelled consumes every future and publishes every
\* result a future returned.
C22_FailureOfOneSymbolIsContained ==
    /\ [](pc # "crashed")
    /\ [](engine = "local" /\ pc = "done" =>
            /\ i = Len(stock_data) + 1
            /\ Published = FilterOutput(Sound(stock_data))
            /\ \A k \in 1..Len(stock_data) :
                   stock_data[k].fault # "none" =>
                       stock_data[k].ticker \notin PublishedTickers)
    /\ [][engine = "core" =>
            \A k \in DOMAIN fut :
                ReportsError(k) =>
                    /\ ret'[k] = None
                    /\ \A j \in DOMAIN fut \ {k} : fut'[j] = fut[j] /\ ret'[j] = ret[j]
                    /\ <<pc, results, consumed, Published>>' =
                           <<pc, results, consumed, Published>>]_vars
    /\ [](engine = "core" /\ pc = "done" /\ ~ cancel_event /\ tickers # <<>> =>
            /\ Len(consumed) = Len(tickers)
            /\ \A k \in DOMAIN fut :
                   ret[k] # None => \E j \in 1..Len(Published) : Published[j] = ret[k][1])

\* C22 witness: a filter run has ended in which an item whose analysis
\* raised came before an item that was published.
C22_Witness ==
    /\ engine = "local"
    /\ pc = "done"
    /\ \E a, b \in 1..Len(stock_data) :
           /\ a < b
           /\ Raises(stock_data[a])
           /\ stock_data[b].ticker \in PublishedTickers

\* ------------------------------------------------------------ data fetcher
\* main() of data_fetcher.py: the ticker file is read, the price history of
\* every ticker is downloaded in one batch, the company info is fetched
\* ticker by ticker, and the two are combined into the Dataset.
\*
\* A line of the ticker file is as for the scanner; here the first line is
\* taken for the header when it is one, and a ticker "SYMBOL" is dropped.
FetchLineTexts == {"aaa", "BBB", "CCC"}
FetchLines ==
    { [kind |-> "comment", text |-> ""], [kind |-> "header", text |-> "Symbol"] }
        \cup [kind : {"piped", "plain"}, text : FetchLineTexts]
FetchFiles == UNION { [1..n -> FetchLines] : n \in 0..MaxTickers }

\* _process_line, for a file that is not an ASX list.
ProcessLine(line, list) ==
    IF line.kind = "comment" THEN list
    ELSE IF Upper(line.text) # "SYMBOL" THEN Append(list, Upper(line.text))
         ELSE list

RECURSIVE ProcessLines(_, _)
ProcessLines(lines, list) ==
    IF lines = <<>> THEN list
    ELSE ProcessLines(Tail(lines), ProcessLine(Head(lines), list))

\* get_tickers_from_file
GetTickersFromFile(lines) ==
    IF lines = <<>> THEN <<>>
    ELSE IF Head(lines).kind = "header" THEN ProcessLines(Tail(lines), <<>>)
         ELSE ProcessLines(lines, <<>>)

\* What the data source answers to the successive requests for the history
\* of one symbol: the history, a terminal "no data", or a rate-limit error
\* (429) twice and then the history.
Answers == { <<"ok">>, <<"terminal">>, <<"retryable", "retryable", "ok">> }

\* What stock.info gives for one symbol: nothing usable (or an exception),
\* an info without market cap, an info with one.
Infos == {"missing", "no_cap", "cap"}

KeysOf(list) == { list[k] : k \in 1..Len(list) }

\* yf.download asks once for every ticker: a ticker whose request fails has
\* no column, or a column of NaN rows only.
Downloads(answers) ==
    { h \in [DOMAIN answers -> {"absent", "empty", "bars"}] :
        \A t \in DOMAIN answers : (h[t] = "bars") <=> (answers[t][1] = "ok") }

InitFetch ==
    /\ engine = "core"
    /\ weekly_data = <<>>
    /\ config = CHOOSE c \in Configs("core") : TRUE
    /\ market_cap = None
    /\ i = 1
    /\ result = None
    /\ log = <<>>
    /\ avg_weekly_volume_series = <<>>
    /\ NoDailyFrame
    /\ NoRun
    /\ \E f \in FetchFiles :
          \E list \in {GetTickersFromFile(f)} :
             /\ pc = IF list = <<>> THEN "done" ELSE "download"
             /\ \E answers \in [KeysOf(list) -> Answers] :
                   fetcher = [ network |-> answers,
                               tickers |-> list,
                               hist_data_multi |-> <<>>,
                               all_info_data |-> <<>>,
                               all_stock_data |-> <<>>,
                               tickers_no_hist |-> 0,
                               tickers_no_info |-> 0,
                               tickers_no_mcap |-> 0 ]

\* Step 1: hist_data_multi = yf.download(tickers, ...)
DownloadHistory ==
    /\ pc = "download"
    /\ \E h \in Downloads(fetcher.network) :
          fetcher' = [fetcher EXCEPT !.hist_data_multi = h]
    /\ pc' = "info"
    /\ UNCHANGED <<i, inputs, result, log, avg_weekly_volume_series, dailyVars, runVars>>

\* Step 2: all_info_data = fetch_info_individual(tickers)
FetchInfo ==
    /\ pc = "info"
    /\ \E infos \in [KeysOf(fetcher.tickers) -> Infos] :
          fetcher' = [fetcher EXCEPT !.all_info_data = infos]
    /\ pc' = "combine"
    /\ UNCHANGED <<i, inputs, result, log, avg_weekly_volume_series, dailyVars, runVars>>

\* all_stock_data[ticker] = value
Put(dict, ticker, value) ==
    IF \E k \in 1..Len(dict) : dict[k].ticker = ticker
    THEN [k \in 1..Len(dict) |->
             IF dict[k].ticker = ticker THEN [ticker |-> ticker, info |-> value]
             ELSE dict[k]]
    ELSE Append(dict, [ticker |-> ticker, info |-> value])

\* The ticker has no column in hist_data_multi, or an empty one.
NoHistory(f, ticker) == f.hist_data_multi[ticker] \in {"absent", "empty"}

\* Step 3, one pass of `for ticker in tqdm(tickers, ...)`.
Combine ==
    /\ pc = "combine"
    /\ i <= Len(fetcher.tickers)
    /\ LET ticker == fetcher.tickers[i]
           info   == fetcher.all_info_data[ticker]
       IN  fetcher' =
             IF NoHistory(fetcher, ticker)
             THEN [fetcher EXCEPT !.tickers_no_hist = @ + 1]
             ELSE [fetcher EXCEPT
                     !.tickers_no_info = IF info = "missing" THEN @ + 1 ELSE @,
                     !.tickers_no_mcap = IF info = "no_cap" THEN @ + 1 ELSE @,
                     !.all_stock_data = Put(@, ticker, info)]
    /\ i' = i + 1
    /\ UNCHANGED <<pc, inputs, result, log, avg_weekly_volume_series, dailyVars, runVars>>

\* The loop has ended: the tallies are printed and the Dataset is saved.
SaveDataset ==
    /\ pc = "combine"
    /\ i > Len(fetcher.tickers)
    /\ pc' = "done"
    /\ UNCHANGED <<i, fetchVars, inputs, result, log, avg_weekly_volume_series, dailyVars, runVars>>

NextFetch == DownloadHistory \/ FetchInfo \/ Combine \/ SaveDataset

SpecFetch == InitFetch /\ [][NextFetch]_vars

\* The Dataset the fetch run has built, and its keys.
Dataset == fetcher.all_stock_data
DatasetKeys == { Dataset[k].ticker : k \in 1..Len(Dataset) }

\* The symbols of the input list for which the download gave price bars.
WithHistory ==
    { t \in KeysOf(fetcher.tickers) : fetcher.hist_data_multi[t] = "bars" }

\* C23 as stated: after a fetch run the Dataset holds exactly the symbols
\* with a non-empty price history, each once, no skipped symbol is in it,
\* and its size plus the tally of symbols skipped for want of history is
\* the number of symbols of the input list.
C23_DatasetPlusSkippedIsInput ==
    pc = "done" /\ fetcher.tickers # <<>> =>
        /\ DatasetKeys = WithHistory
        /\ \A a, b \in 1..Len(Dataset) : a # b => Dataset[a].ticker # Dataset[b].ticker
        /\ \A t \in KeysOf(fetcher.tickers) \ WithHistory : t \notin DatasetKeys
        /\ Len(Dataset) + fetcher.tickers_no_hist = Len(fetcher.tickers)

\* The data source gives the history of the symbol once the requests that
\* fail with a retryable error are repeated.
SucceedsOnRetry(answers) ==
    \E n \in 1..Len(answers) :
        /\ answers[n] = "ok"
        /\ \A m \in 1..(n - 1) : answers[m] = "retryable"

\* The entries of the input list whose symbol the data source has no data
\* for, however often it is asked.
TerminalEntries ==
    { k \in 1..Len(fetcher.tickers) :
        ~ SucceedsOnRetry(fetcher.network[fetcher.tickers[k]]) }

\* C24 as stated: a symbol whose fetch fails with a retryable error and
\* succeeds on a later attempt is in the Dataset and is not counted as
\* skipped: the skip tally counts the symbols without data only (of three
\* symbols, one terminal, one failing twice then succeeding and one
\* succeeding at once, two are in the Dataset and one is skipped).
C24_RetriedSymbolIsFetched ==
    pc = "done" /\ fetcher.tickers # <<>> =>
        /\ \A t \in KeysOf(fetcher.tickers) :
               SucceedsOnRetry(fetcher.network[t]) => t \in DatasetKeys
        /\ fetcher.tickers_no_hist = Cardinality(TerminalEntries)

\* ------------------------------------------------------ the Run buttons
\* The windows before a run: the form holds the settings, pc = "idle".
\* start_scan checks the settings and starts run_scan_thread; start_filter
\* starts run_filter_thread on the loaded Dataset.
BadMAPeriods ==
    { [short |-> 2, intermediate |-> 1, medium |-> 4, long |-> 6],
      [short |-> 0, intermediate |-> 2, medium |-> 4, long |-> 6] }

BaseConfig(e) ==
    IF e = "core" THEN CHOOSE c \in Configs("core") : c.max_market_cap > 0
    ELSE CHOOSE c \in Configs("local") : TRUE

\* The settings a form can hold: good ones, MA periods out of order or not
\* positive, a volume multiplier of zero.
FormConfigs(e) ==
    {BaseConfig(e)}
        \cup { [BaseConfig(e) EXCEPT !.ma_periods = bad] : bad \in BadMAPeriods }
        \cup { [BaseConfig(e) EXCEPT !.volume_multiplier = <<0, 1>>] }

\* What the form lets type for max_workers.
FormMaxWorkers == MaxWorkers \cup {0}

InitStart ==
    /\ engine \in {"local", "core"}
    /\ weekly_data = <<>>
    /\ config \in FormConfigs(engine)
    /\ market_cap = None
    /\ pc = "idle"
    /\ i = 1
    /\ result = None
    /\ log = <<>>
    /\ avg_weekly_volume_series = <<>>
    /\ NoDailyFrame
    /\ NoFetch
    /\ IF engine = "local"
       THEN /\ stock_data \in Datasets \cup {<<>>}
            /\ tickers = <<>>
            /\ max_workers = 1
       ELSE /\ stock_data = <<>>
            /\ tickers \in {GetTickers(f) : f \in TickerFiles}
            /\ max_workers \in FormMaxWorkers
    /\ fut = <<>>
    /\ ret = <<>>
    /\ completed = <<>>
    /\ snapshot = {}
    /\ consumed = <<>>
    /\ results = <<>>
    /\ results_queue = <<>>
    /\ tree = <<>>
    /\ progress_queue = <<>>
    /\ cancel_event = FALSE

\* The checks of start_scan: the caps, the MA periods, the multiplier.
ScanSettingsOk(c) ==
    /\ ~ (c.min_market_cap < 0 \/ c.max_market_cap < 0)
    /\ ~ (c.max_market_cap > 0 /\ c.min_market_cap > c.max_market_cap)
    /\ \A k \in 1..4 : c.ma_periods[MAKeys[k]] > 0
    /\ \A k \in 1..3 : c.ma_periods[MAKeys[k]] < c.ma_periods[MAKeys[k + 1]]
    /\ ~ (c.volume_multiplier[1] <= 0)

\* start_scan: an error box and nothing else for bad settings; otherwise
\* the table and the queues are cleared and run_scan_thread is started,
\* which puts its first status.
start_scan ==
    /\ engine = "core"
    /\ pc = "idle"
    /\ IF ScanSettingsOk(config)
       THEN /\ pc' = "start"
            /\ cancel_event' = FALSE
            /\ tree' = <<>>
            /\ results_queue' = <<>>
            /\ progress_queue' = <<"Status: Starting scan...">>
       ELSE /\ pc' = "rejected"
            /\ UNCHANGED <<cancel_event, queueVars>>
    /\ UNCHANGED <<analysisVars, dailyVars, fetchVars, filterVars, tickers, max_workers,
                   fut, ret, completed, snapshot, consumed>>

\* start_filter: a warning and nothing else without a Dataset; otherwise the
\* settings are read from the form, the table and the queues are cleared and
\* run_filter_thread is started, which puts its first status.
start_filter ==
    /\ engine = "local"
    /\ pc = "idle"
    /\ IF stock_data = <<>>
       THEN /\ pc' = "rejected"
            /\ UNCHANGED queueVars
       ELSE /\ pc' = "filter"
            /\ tree' = <<>>
            /\ results_queue' = <<>>
            /\ progress_queue' = <<"Status: Starting filter...">>
    /\ UNCHANGED <<analysisVars, dailyVars, fetchVars, filterVars, scanVars>>

NextStart == start_scan \/ start_filter \/ NextRun

SpecStart == InitStart /\ [][NextStart]_vars

\* The settings the claim calls invalid.
InvalidSettings(c) ==
    \/ \E k \in 1..4 : c.ma_periods[MAKeys[k]] <= 0
    \/ \E k \in 1..3 : c.ma_periods[MAKeys[k]] >= c.ma_periods[MAKeys[k + 1]]
    \/ c.volume_multiplier[1] <= 0

\* C25 as stated: with invalid settings no thread is ever started by
\* either Run button: no symbol is processed, no fetch is submitted and
\* nothing is put on a queue or published.
C25_InvalidSettingsStartNothing ==
    InvalidSettings(config) =>
        /\ pc \in {"idle", "rejected"}
        /\ i = 1
        /\ fut = <<>>
        /\ results = <<>>
        /\ progress_queue = <<>>
        /\ Published = <<>>

\* --------------------------------------------- independence of the order
\* How often a result occurs in a sequence of results, and how many
\* futures returned it.
Occurrences(seq, r) == Cardinality({ j \in 1..Len(seq) : seq[j] = r })
Returned(r) == Cardinality({ k \in DOMAIN ret : ret[k] = <<r>> })

\* The results a future of this run can return.
ScanResults == { [ticker |-> tickers[k], volume_ratio |-> ScanRatio] : k \in DOMAIN fut }

\* C26: when a scan that was not cancelled has ended, the published results
\* are exactly the results the analyses returned from the data fetched for
\* their symbols, each as often as it was returned, in whatever order the
\* fetches were started, completed and consumed; the accumulated result list
\* holds the same.
C26_PublishedSetIndependentOfOrder ==
    pc = "done" /\ ~ cancel_event /\ tickers # <<>> =>
        /\ \A r \in ScanResults :
               /\ Occurrences(Published, r) = Returned(r)
               /\ Occurrences(results, r) = Returned(r)
        /\ \A j \in 1..Len(Published) : Published[j] \in ScanResults

\* C26 witness: a scan has ended without cancellation in which a later
\* submitted symbol was consumed before an earlier one, both with a result,
\* and a third symbol gave none.
C26_Witness ==
    /\ pc = "done"
    /\ ~ cancel_event
    /\ \E a, b \in 1..Len(consumed) :
           /\ a < b
           /\ consumed[a] > consumed[b]
           /\ ret[consumed[a]] # None
           /\ ret[consumed[b]] # None
    /\ \E k \in DOMAIN ret : ret[k] = None

\* -------------------------------------------------- the shared run state
\* The futures whose state or result differs after the step.
Touched == { k \in DOMAIN fut : fut'[k] # fut[k] \/ ret'[k] # ret[k] }

\* C27: in a scan the result list and the completed count (the length of
\* consumed) change only in a pass of the consumer loop of run_scan_thread;
\* a step of a worker changes the state and the result of one future, its
\* own, and leaves the result list, the count and every other future alone.
C27_OnlyConsumerWritesResults ==
    [][/\ results' # results \/ consumed' # consumed => ConsumeCompleted
       /\ Workers =>
             /\ Cardinality(Touched) = 1
             /\ results' = results
             /\ consumed' = consumed
             /\ snapshot' = snapshot]_vars

\* C27 witness: the consumer has stored a result while one worker is inside
\* a fetch and another worker's result waits to be consumed.
C27_Witness ==
    /\ results # <<>>
    /\ InFlight # {}
    /\ \E k \in DOMAIN fut :
           fut[k] = "finished" /\ ret[k] # None /\ k \notin Consumed

\* ------------------------------------------------------- the end of a scan
\* run_scan_thread has returned, or an exception has ended it.
ScanThreadEnded == engine = "core" /\ pc \in {"done", "crashed"}

DonePositions == { j \in 1..Len(progress_queue) : progress_queue[j] = "DONE" }

\* C28 as stated: "DONE" is never followed by another message of the run,
\* and a scan thread that has ended, whatever the settings start_scan let
\* through, has put "DONE" exactly once, as its last message.
C28_DoneOnceAfterEveryMessage ==
    /\ \A j \in DonePositions : j = Len(progress_queue)
    /\ ScanThreadEnded => DonePositions = {Len(progress_queue)}

\* ------------------------------------------- baselines and the history check
\* The offset, from the newest week, of the candidate at row t.
OffsetOf(t) == Len(weekly_data) - t + 1

\* C29: in the lookback engine a candidate week that passes the history
\* check has a trailing volume baseline that is defined and strictly
\* positive, and every moving average evaluated for it is defined; no
\* candidate is rejected for a baseline that is NaN or zero.
C29_BaselinesDefinedAfterHistoryCheck ==
    engine = "local" =>
        \A e \in Entries :
            /\ e.check # "baseline"
            /\ e.check # "history" =>
                  /\ ~ IsNaN(PrecedingAvgVolume(weekly_data, config, OffsetOf(e.week)))
                  /\ PrecedingAvgVolume(weekly_data, config, OffsetOf(e.week))[1] > 0
                  /\ \A m \in MAWindows :
                         MAEvaluated(weekly_data, m, OffsetOf(e.week))
                             => ~ IsNaN(MAValue(weekly_data, m, OffsetOf(e.week)))

\* C29 witness: a candidate of the lookback engine has passed the history
\* check with one moving average evaluated besides the short one and
\* another omitted.
C29_Witness ==
    /\ engine = "local"
    /\ \E e \in Entries :
          /\ e.check \notin {"history", "baseline"}
          /\ \E m \in MAWindows : m # ShortestMA /\ PriorWeeks(e.week) >= m
          /\ \E m \in MAWindows : PriorWeeks(e.week) < m

\* ------------------------------------------------- the lookback scan
\* The lookback engine alone, scanning MaxLookback weeks back.
InitLookback ==
    /\ Init
    /\ engine = "local"
    /\ config.lookback_weeks = MaxLookback

NextLookback ==
    \/ NoWeeklyData
    \/ SkipWeek
    \/ Match

SpecLookback == InitLookback /\ [][NextLookback]_vars

\* The weekly frame with the n - 1 newest weeks removed, and the settings
\* that screen the last week only.
Truncated(w, n) == SubSeq(w, 1, Len(w) - (n - 1))
LastWeekOnly(cfg) == [cfg EXCEPT !.lookback_weeks = 1]

\* C30: what the lookback scan decides and reports for the i-th most
\* recent week is what screening the last week of the frame without its
\* i - 1 newest weeks, with lookback_weeks = 1, decides and reports: the
\* same week, the same check reached, the same failing moving average and,
\* for a match, the same result.
C30_TruncationEquivalence ==
    engine = "local" =>
        \A n \in 1..Len(log) :
            LET w   == Truncated(weekly_data, n)
                cfg == LastWeekOnly(config)
                v   == Verdict(w, cfg, market_cap, 1)
            IN  /\ LoopGoesOn(w, cfg, 1)
                /\ log[n] = Entry(w, 1, v,
                                  IF v = "ma" THEN FirstFailingMA(w, cfg, 1) ELSE NoKey)
                /\ v = "match" => result = <<MatchOf(w, cfg, market_cap, 1)>>

\* C30 witness: the scan has matched a week older than the newest one,
\* after rejecting the newest for something other than its history.
C30_Witness ==
    /\ engine = "local"
    /\ Len(log) >= 2
    /\ log[1].check \notin {"history", "baseline"}
    /\ log[Len(log)].check = "match"
    /\ result # None

====
